---- MODULE Spec2Model ----
(***************************************************************************)
(* Model of the in-memory payment processor (src/src/processor.rs) and of  *)
(* the typed events it consumes (src/src/payment.rs).                      *)
(*                                                                         *)
(* The state is the processor's map ClientID -> Account.  One action,      *)
(* ProcessPayment, models one call of InMemoryProcessor::process on an     *)
(* arbitrary typed event.  `last` records the variant of the most recent   *)
(* call's event and the Result it returned.  `net` and `succeeded` are     *)
(* history variables: per client, the signed sum of what the successful    *)
(* events moved, and the tx ids of the successful deposits/withdrawals;     *)
(* `charged` is the set of clients for whom a Chargeback has succeeded.    *)
(*                                                                         *)
(* SpecRedispute follows the events of one client and also remembers, in   *)
(* the history variable `closed`, the tx ids whose dispute a Resolve or a  *)
(* Chargeback has closed.                                                  *)
(*                                                                         *)
(* SpecRun is the loop of run() in src/src/main.rs over an input file of   *)
(* `pending` unread records: each record is read, converted into a Payment *)
(* (payment.rs) and handed to process(); the account states are written    *)
(* when the input is exhausted.  `record` and `converted` are the record   *)
(* read last and what its conversion gave, `handed` lists the indices of   *)
(* the records handed to the processor, `reported` those whose processor   *)
(* error was printed.                                                      *)
(***************************************************************************)
EXTENDS Integers, FiniteSets, Sequences, TLC

VARIABLES accounts, last, net, succeeded, charged, closed,
          pc, pending, index, record, converted, handed, reported, output

ledgerVars == <<accounts, last, net, succeeded, charged, closed>>
runVars == <<pc, pending, index, record, converted, handed, reported, output>>
vars == <<accounts, last, net, succeeded, charged, closed,
          pc, pending, index, record, converted, handed, reported, output>>

(* ---------------------------------------------------------------- bounds *)
\* Client ids are 1..MaxClient (ClientID = u16 in the source).
MaxClient == 2
\* Transaction ids are 1..MaxTx (TransactionID = u32 in the source).
MaxTx == 2
\* The largest value of the integer behind Amount (u64::MAX in the source,
\* scaled down so that checked_add can actually overflow).
MaxAmount == 2
\* The input file of SpecRun has at most MaxRecords records.
MaxRecords == 3
\* A decimal amount of the input is a whole number of 1/SubUnits of the
\* precision 0.0001, so that the conversion has digits to cut off.
SubUnits == 2

ClientIDs == 1..MaxClient
TransactionIDs == 1..MaxTx
Amounts == 0..MaxAmount

(* ---------------------------------------------------------------- errors *)
OK == "Ok"
Overflow == "Overflow"
Underflow == "Underflow"
TransactionAlreadyExists == "TransactionAlreadyExists"
TransactionNotFound == "TransactionNotFound"
TransactionNotDisputed == "TransactionNotDisputed"
TransactionAlreadyDisputed == "TransactionAlreadyDisputed"
WrongTransactionType == "WrongTransactionType"
AccountLocked == "AccountLocked"

Error == {Overflow, Underflow, TransactionAlreadyExists, TransactionNotFound,
          TransactionNotDisputed, TransactionAlreadyDisputed,
          WrongTransactionType, AccountLocked}

(* ------------------------------------------------------- checked integers *)
\* u64::checked_add / u64::checked_sub: None when the result leaves 0..MaxAmount.
None == [some |-> FALSE, v |-> 0]
Some(x) == [some |-> TRUE, v |-> x]

checked_add(a, b) == IF a + b > MaxAmount THEN None ELSE Some(a + b)

checked_sub(a, b) == IF a < b THEN None ELSE Some(a - b)

\* The unchecked `-` of available_funds, as the release build computes it.
wrapping_sub(a, b) == (a - b) % (MaxAmount + 1)

(* ----------------------------------------------------------- AccountState *)
DefaultAccountState == [locked |-> FALSE, total_funds |-> 0, held_funds |-> 0]

available_funds(s) == wrapping_sub(s.total_funds, s.held_funds)

\* Result<AccountState>: err = OK and the new snapshot, or an error.
OkState(s) == [err |-> OK, state |-> s]
ErrState(e, s) == [err |-> e, state |-> s]

\* Mutant: deposit with a wrapping instead of a checked addition.
state_deposit_wrapping(s, amount) ==
    OkState([s EXCEPT !.total_funds = (@ + amount) % (MaxAmount + 1)])

state_deposit(s, amount) ==
    LET t == checked_add(s.total_funds, amount)
    IN  IF ~t.some THEN ErrState(Overflow, s)
        ELSE OkState([s EXCEPT !.total_funds = t.v])

\* Mutant: withdraw that refuses to take the last available unit.
state_withdraw_strictly_less(s, amount) ==
    LET a == checked_sub(available_funds(s), amount)
        t == checked_sub(s.total_funds, amount)
    IN  IF ~a.some \/ a.v = 0 THEN ErrState(Underflow, s)
        ELSE IF ~t.some THEN ErrState(Underflow, s)
        ELSE OkState([s EXCEPT !.total_funds = t.v])

\* Mutant: withdraw that checks the total only, not the available funds.
state_withdraw_total_only(s, amount) ==
    LET t == checked_sub(s.total_funds, amount)
    IN  IF ~t.some THEN ErrState(Underflow, s)
        ELSE OkState([s EXCEPT !.total_funds = t.v])

state_withdraw(s, amount) ==
    LET a == checked_sub(available_funds(s), amount)
        t == checked_sub(s.total_funds, amount)
    IN  IF ~a.some THEN ErrState(Underflow, s)
        ELSE IF ~t.some THEN ErrState(Underflow, s)
        ELSE OkState([s EXCEPT !.total_funds = t.v])

\* Mutant: hold that does not check the available funds.
state_hold_unchecked_available(s, amount) ==
    LET h == checked_add(s.held_funds, amount)
    IN  IF ~h.some THEN ErrState(Overflow, s)
        ELSE OkState([s EXCEPT !.held_funds = h.v])

state_hold(s, amount) ==
    LET a == checked_sub(available_funds(s), amount)
        h == checked_add(s.held_funds, amount)
    IN  IF ~a.some THEN ErrState(Underflow, s)
        ELSE IF ~h.some THEN ErrState(Overflow, s)
        ELSE OkState([s EXCEPT !.held_funds = h.v])

\* Mutant: unhold that builds the new snapshot with the lock cleared.
state_unhold_unlocks(s, amount) ==
    LET h == checked_sub(s.held_funds, amount)
    IN  IF ~h.some THEN ErrState(Underflow, s)
        ELSE OkState([locked |-> FALSE, total_funds |-> s.total_funds,
                      held_funds |-> h.v])

\* Mutant: unhold that takes the amount out of the total instead of the hold.
state_unhold_from_total(s, amount) ==
    LET t == checked_sub(s.total_funds, amount)
    IN  IF ~t.some THEN ErrState(Underflow, s)
        ELSE OkState([s EXCEPT !.total_funds = t.v])

state_unhold(s, amount) ==
    LET h == checked_sub(s.held_funds, amount)
    IN  IF ~h.some THEN ErrState(Underflow, s)
        ELSE OkState([s EXCEPT !.held_funds = h.v])

\* Mutant: chargeback that takes the amount from the total but keeps the hold.
state_chargeback_total_only(s, amount) ==
    LET t == checked_sub(s.total_funds, amount)
        h == checked_sub(s.held_funds, amount)
    IN  IF ~t.some THEN ErrState(Underflow, s)
        ELSE IF ~h.some THEN ErrState(Underflow, s)
        ELSE OkState([locked |-> TRUE, total_funds |-> t.v,
                      held_funds |-> s.held_funds])

\* Mutant: chargeback that releases the hold but leaves the total.
state_chargeback_held_only(s, amount) ==
    LET h == checked_sub(s.held_funds, amount)
    IN  IF ~h.some THEN ErrState(Underflow, s)
        ELSE OkState([locked |-> TRUE, total_funds |-> s.total_funds,
                      held_funds |-> h.v])

state_chargeback(s, amount) ==
    LET t == checked_sub(s.total_funds, amount)
        h == checked_sub(s.held_funds, amount)
    IN  IF ~t.some THEN ErrState(Underflow, s)
        ELSE IF ~h.some THEN ErrState(Underflow, s)
        ELSE OkState([locked |-> TRUE, total_funds |-> t.v, held_funds |-> h.v])

(* ---------------------------------------------------------------- Account *)
\* PastTransaction::Deposit(amount) / PastTransaction::Withdrawal(amount)
PastDeposit(amount) == [variant |-> "Deposit", amount |-> amount]
PastWithdrawal(amount) == [variant |-> "Withdrawal", amount |-> amount]

\* history is a map with a growing key set; in_dispute is a set of tx ids.
DefaultAccount ==
    [state |-> DefaultAccountState, history |-> <<>>, in_dispute |-> {}]

history_insert(h, tx, past) ==
    [t \in (DOMAIN h) \cup {tx} |-> IF t = tx THEN past ELSE h[t]]

\* Result<()> of an Account method together with the account it leaves behind.
Outcome(e, acct) == [err |-> e, account |-> acct]

\* Mutant: lookup that accepts a past withdrawal as well.
get_past_transaction(self, tx) ==
    IF tx \notin DOMAIN self.history
    THEN [err |-> TransactionNotFound, amount |-> 0]
    ELSE [err |-> OK, amount |-> self.history[tx].amount]

\* Result<Amount>
get_past_deposit(self, tx) ==
    IF tx \notin DOMAIN self.history
    THEN [err |-> TransactionNotFound, amount |-> 0]
    ELSE IF self.history[tx].variant = "Deposit"
         THEN [err |-> OK, amount |-> self.history[tx].amount]
         ELSE [err |-> WrongTransactionType, amount |-> 0]

\* Mutant: deposit that enters the tx in the history before trying the sum.
account_deposit_insert_first(self, tx, amount) ==
    IF self.state.locked THEN Outcome(AccountLocked, self)
    ELSE IF tx \in DOMAIN self.history THEN Outcome(TransactionAlreadyExists, self)
    ELSE LET entered == [self EXCEPT
                            !.history = history_insert(@, tx, PastDeposit(amount))]
             r == state_deposit(self.state, amount)
         IN  IF r.err # OK THEN Outcome(r.err, entered)
             ELSE Outcome(OK, [entered EXCEPT !.state = r.state])

\* Mutant: deposit that looks at the history before the lock.
account_deposit_history_first(self, tx, amount) ==
    IF tx \in DOMAIN self.history THEN Outcome(TransactionAlreadyExists, self)
    ELSE IF self.state.locked THEN Outcome(AccountLocked, self)
    ELSE LET r == state_deposit(self.state, amount)
         IN  IF r.err # OK THEN Outcome(r.err, self)
             ELSE Outcome(OK, [self EXCEPT
                      !.state = r.state,
                      !.history = history_insert(@, tx, PastDeposit(amount))])

account_deposit(self, tx, amount) ==
    IF self.state.locked THEN Outcome(AccountLocked, self)
    ELSE IF tx \in DOMAIN self.history THEN Outcome(TransactionAlreadyExists, self)
    ELSE LET r == state_deposit(self.state, amount)
         IN  IF r.err # OK THEN Outcome(r.err, self)
             ELSE Outcome(OK, [self EXCEPT
                      !.state = r.state,
                      !.history = history_insert(@, tx, PastDeposit(amount))])

\* Mutant: withdraw that does not look for the tx id in the history.
account_withdraw_no_duplicate_check(self, tx, amount) ==
    IF self.state.locked THEN Outcome(AccountLocked, self)
    ELSE LET r == state_withdraw(self.state, amount)
         IN  IF r.err # OK THEN Outcome(r.err, self)
             ELSE Outcome(OK, [self EXCEPT
                      !.state = r.state,
                      !.history = history_insert(@, tx, PastWithdrawal(amount))])

account_withdraw(self, tx, amount) ==
    IF self.state.locked THEN Outcome(AccountLocked, self)
    ELSE IF tx \in DOMAIN self.history THEN Outcome(TransactionAlreadyExists, self)
    ELSE LET r == state_withdraw(self.state, amount)
         IN  IF r.err # OK THEN Outcome(r.err, self)
             ELSE Outcome(OK, [self EXCEPT
                      !.state = r.state,
                      !.history = history_insert(@, tx, PastWithdrawal(amount))])

\* Mutant: dispute that tries the hold before looking at the dispute set.
account_dispute_hold_first(self, tx) ==
    LET past_tx == get_past_deposit(self, tx)
    IN  IF past_tx.err # OK THEN Outcome(past_tx.err, self)
        ELSE LET r == state_hold(self.state, past_tx.amount)
             IN  IF r.err # OK THEN Outcome(r.err, self)
                 ELSE IF tx \in self.in_dispute
                      THEN Outcome(TransactionAlreadyDisputed, self)
                 ELSE Outcome(OK, [self EXCEPT
                          !.state = r.state,
                          !.in_dispute = @ \cup {tx}])

\* Mutant: dispute that records the tx as disputed before trying the hold.
account_dispute_insert_first(self, tx) ==
    LET past_tx == get_past_deposit(self, tx)
    IN  IF past_tx.err # OK THEN Outcome(past_tx.err, self)
        ELSE IF tx \in self.in_dispute THEN Outcome(TransactionAlreadyDisputed, self)
        ELSE LET marked == [self EXCEPT !.in_dispute = @ \cup {tx}]
                 r == state_hold(self.state, past_tx.amount)
             IN  IF r.err # OK THEN Outcome(r.err, marked)
                 ELSE Outcome(OK, [marked EXCEPT !.state = r.state])

\* Mutant: dispute behind the lock gate, as deposit and withdraw are.
account_dispute_lock_gated(self, tx) ==
    IF self.state.locked THEN Outcome(AccountLocked, self)
    ELSE LET past_tx == get_past_deposit(self, tx)
         IN  IF past_tx.err # OK THEN Outcome(past_tx.err, self)
             ELSE IF tx \in self.in_dispute
                  THEN Outcome(TransactionAlreadyDisputed, self)
             ELSE LET r == state_hold(self.state, past_tx.amount)
                  IN  IF r.err # OK THEN Outcome(r.err, self)
                      ELSE Outcome(OK, [self EXCEPT
                               !.state = r.state,
                               !.in_dispute = @ \cup {tx}])

account_dispute(self, tx) ==
    LET past_tx == get_past_deposit(self, tx)
    IN  IF past_tx.err # OK THEN Outcome(past_tx.err, self)
        ELSE IF tx \in self.in_dispute THEN Outcome(TransactionAlreadyDisputed, self)
        ELSE LET r == state_hold(self.state, past_tx.amount)
             IN  IF r.err # OK THEN Outcome(r.err, self)
                 ELSE Outcome(OK, [self EXCEPT
                          !.state = r.state,
                          !.in_dispute = @ \cup {tx}])

\* Mutant: resolve that leaves the tx in the dispute set.
account_resolve_keeps_dispute(self, tx) ==
    LET past_tx == get_past_deposit(self, tx)
    IN  IF past_tx.err # OK THEN Outcome(past_tx.err, self)
        ELSE IF tx \notin self.in_dispute THEN Outcome(TransactionNotDisputed, self)
        ELSE LET r == state_unhold(self.state, past_tx.amount)
             IN  IF r.err # OK THEN Outcome(r.err, self)
                 ELSE Outcome(OK, [self EXCEPT !.state = r.state])

account_resolve(self, tx) ==
    LET past_tx == get_past_deposit(self, tx)
    IN  IF past_tx.err # OK THEN Outcome(past_tx.err, self)
        ELSE IF tx \notin self.in_dispute THEN Outcome(TransactionNotDisputed, self)
        ELSE LET r == state_unhold(self.state, past_tx.amount)
             IN  IF r.err # OK THEN Outcome(r.err, self)
                 ELSE Outcome(OK, [self EXCEPT
                          !.state = r.state,
                          !.in_dispute = @ \ {tx}])

\* Mutant: chargeback that adopts the new balances but not the lock.
account_chargeback_no_lock(self, tx) ==
    LET past_tx == get_past_deposit(self, tx)
    IN  IF past_tx.err # OK THEN Outcome(past_tx.err, self)
        ELSE IF tx \notin self.in_dispute THEN Outcome(TransactionNotDisputed, self)
        ELSE LET r == state_chargeback(self.state, past_tx.amount)
             IN  IF r.err # OK THEN Outcome(r.err, self)
                 ELSE Outcome(OK, [self EXCEPT
                          !.state = [r.state EXCEPT !.locked = self.state.locked],
                          !.in_dispute = @ \ {tx}])

\* Mutant: chargeback that leaves the tx in the dispute set.
account_chargeback_keeps_dispute(self, tx) ==
    LET past_tx == get_past_deposit(self, tx)
    IN  IF past_tx.err # OK THEN Outcome(past_tx.err, self)
        ELSE IF tx \notin self.in_dispute THEN Outcome(TransactionNotDisputed, self)
        ELSE LET r == state_chargeback(self.state, past_tx.amount)
             IN  IF r.err # OK THEN Outcome(r.err, self)
                 ELSE Outcome(OK, [self EXCEPT !.state = r.state])

account_chargeback(self, tx) ==
    LET past_tx == get_past_deposit(self, tx)
    IN  IF past_tx.err # OK THEN Outcome(past_tx.err, self)
        ELSE IF tx \notin self.in_dispute THEN Outcome(TransactionNotDisputed, self)
        ELSE LET r == state_chargeback(self.state, past_tx.amount)
             IN  IF r.err # OK THEN Outcome(r.err, self)
                 ELSE Outcome(OK, [self EXCEPT
                          !.state = r.state,
                          !.in_dispute = @ \ {tx}])

(* ---------------------------------------------------------------- Payment *)
\* The five variants of Payment; Dispute/Resolve/Chargeback carry no amount.
Payment ==
    [kind : {"Deposit", "Withdrawal"}, client : ClientIDs,
     tx : TransactionIDs, amount : Amounts]
    \cup
    [kind : {"Dispute", "Resolve", "Chargeback"}, client : ClientIDs,
     tx : TransactionIDs, amount : {0}]

\* Mutant: the account is looked up under the transaction id.
get_client_id_from_tx(payment) == payment.tx

get_client_id(payment) == payment.client

(* ------------------------------------------------------------- ingestion *)
MissingAmount == "MissingAmount"
SuperfluousAmount == "SuperfluousAmount"
InvalidType == "InvalidType"

DeserializationError == {MissingAmount, SuperfluousAmount, InvalidType}

\* The decimals an amount field can hold, in units of 0.0001 / SubUnits:
\* negative ones, ones with digits below the precision, ones beyond the
\* largest amount.
RawDecimals == (0 - SubUnits) .. ((MaxAmount + 1) * SubUnits)

\* The type strings tried: the five lowercase names and a capitalised one.
RawTypes == {"deposit", "withdrawal", "dispute", "resolve", "chargeback", "Deposit"}

RawInputRecord ==
    [type : RawTypes, client : ClientIDs, tx : TransactionIDs,
     amount : {None} \cup {Some(x) : x \in RawDecimals}]

\* The `as u64` cast of (amount / AMOUNT_PRECISION): the fraction is cut off
\* and values outside the integer's range saturate at its ends.
cast_u64(x) ==
    IF x < 0 THEN 0
    ELSE IF x \div SubUnits > MaxAmount THEN MaxAmount
    ELSE x \div SubUnits

\* Result<Amount, DeserializationError>
amount_try_from_f64(x) == [err |-> OK, amount |-> cast_u64(x)]

amount_try_from_option(opt) ==
    IF ~opt.some THEN [err |-> MissingAmount, amount |-> 0]
    ELSE amount_try_from_f64(opt.v)

\* Result<Payment, DeserializationError> of the two details conversions.
NoEvent == [kind |-> "None", client |-> 0, tx |-> 0, amount |-> 0]
Converted(e, payment) == [err |-> e, payment |-> payment]

deposit_details_try_from(kind, raw) ==
    LET a == amount_try_from_option(raw.amount)
    IN  IF a.err # OK THEN Converted(a.err, NoEvent)
        ELSE Converted(OK, [kind |-> kind, client |-> raw.client, tx |-> raw.tx,
                            amount |-> a.amount])

dispute_details_try_from(kind, raw) ==
    IF raw.amount.some THEN Converted(SuperfluousAmount, NoEvent)
    ELSE Converted(OK, [kind |-> kind, client |-> raw.client, tx |-> raw.tx,
                        amount |-> 0])

payment_try_from(raw) ==
    CASE raw.type = "deposit" -> deposit_details_try_from("Deposit", raw)
      [] raw.type = "withdrawal" -> deposit_details_try_from("Withdrawal", raw)
      [] raw.type = "dispute" -> dispute_details_try_from("Dispute", raw)
      [] raw.type = "resolve" -> dispute_details_try_from("Resolve", raw)
      [] raw.type = "chargeback" -> dispute_details_try_from("Chargeback", raw)
      [] OTHER -> Converted(InvalidType, NoEvent)

(* ------------------------------------------------------ InMemoryProcessor *)
\* self.accounts.entry(client).or_default()
entry_or_default(accts, client) ==
    IF client \in DOMAIN accts THEN accts
    ELSE [c \in (DOMAIN accts) \cup {client} |->
             IF c = client THEN DefaultAccount ELSE accts[c]]

\* The match of process(), applied to the account of the payment's client.
dispatch(account, payment) ==
    CASE payment.kind = "Deposit" -> account_deposit(account, payment.tx, payment.amount)
      [] payment.kind = "Withdrawal" -> account_withdraw(account, payment.tx, payment.amount)
      [] payment.kind = "Dispute" -> account_dispute(account, payment.tx)
      [] payment.kind = "Resolve" -> account_resolve(account, payment.tx)
      [] payment.kind = "Chargeback" -> account_chargeback(account, payment.tx)

\* process(): the map after the call and the Result it returns.
process(accts, payment) ==
    LET client == get_client_id(payment)
        with == entry_or_default(accts, client)
        out == dispatch(with[client], payment)
    IN  [err |-> out.err,
         accounts |-> [with EXCEPT ![client] = out.account]]

get_all_clients(accts) == DOMAIN accts

get_account(accts, client) ==
    IF client \in DOMAIN accts THEN Some(accts[client].state) ELSE None

get_all_accounts(accts) == {<<c, accts[c].state>> : c \in DOMAIN accts}

(* ----------------------------------------------------- history variable *)
\* What a successful event adds to the signed sum of its client:
\* + amount for a deposit, - amount for a withdrawal, - the disputed deposit's
\* amount for a chargeback, nothing for dispute and resolve.
Moved(accts, payment) ==
    CASE payment.kind = "Deposit" -> payment.amount
      [] payment.kind = "Withdrawal" -> 0 - payment.amount
      [] payment.kind = "Chargeback" ->
            0 - accts[payment.client].history[payment.tx].amount
      [] OTHER -> 0

(* ------------------------------------------------------------ the machine *)
NoPayment == [kind |-> "None", result |-> OK]

\* No record read yet / a row the CSV reader could not deserialize.
NoRecord == [type |-> "", client |-> 0, tx |-> 0, amount |-> None]
Unreadable == [type |-> "?", client |-> 0, tx |-> 0, amount |-> None]
NotConverted == Converted("None", NoEvent)

\* What the writer has put on standard output.
NoOutput == [written |-> FALSE, rows |-> {}]

Init ==
    /\ accounts = <<>>
    /\ last = NoPayment
    /\ net = [c \in ClientIDs |-> 0]
    /\ succeeded = [c \in ClientIDs |-> {}]
    /\ charged = {}
    /\ closed = [c \in ClientIDs |-> {}]
    /\ pc = "loop"
    /\ pending = 0
    /\ index = 0
    /\ record = NoRecord
    /\ converted = NotConverted
    /\ handed = <<>>
    /\ reported = {}
    /\ output = NoOutput

\* One call of process(payment), with the history variables of the ledger.
Call(payment) ==
    LET r == process(accounts, payment)
    IN  /\ accounts' = r.accounts
        /\ last' = [kind |-> payment.kind, result |-> r.err]
        /\ net' = IF r.err = OK
                  THEN [net EXCEPT ![payment.client] = @ + Moved(accounts, payment)]
                  ELSE net
        /\ succeeded' = IF r.err = OK /\ payment.kind \in {"Deposit", "Withdrawal"}
                        THEN [succeeded EXCEPT ![payment.client] = @ \cup {payment.tx}]
                        ELSE succeeded
        /\ charged' = IF r.err = OK /\ payment.kind = "Chargeback"
                      THEN charged \cup {payment.client}
                      ELSE charged

ProcessPayment ==
    \E payment \in Payment :
        /\ Call(payment)
        /\ UNCHANGED closed
        /\ UNCHANGED runVars

Next == ProcessPayment

Spec == Init /\ [][Next]_vars

(* ------------------------------------------- one client, closings tracked *)
\* The client whose events SpecRedispute follows.
ObservedClient == MaxClient

ProcessObserved ==
    \E payment \in Payment :
        /\ payment.client = ObservedClient
        /\ Call(payment)
        /\ closed' = IF /\ process(accounts, payment).err = OK
                        /\ payment.kind \in {"Resolve", "Chargeback"}
                     THEN [closed EXCEPT ![payment.client] = @ \cup {payment.tx}]
                     ELSE closed
        /\ UNCHANGED runVars

NextRedispute == ProcessObserved

SpecRedispute == Init /\ [][NextRedispute]_vars

(* ------------------------------------------------------- the loop of run *)
InitRun ==
    /\ accounts = <<>>
    /\ last = NoPayment
    /\ net = [c \in ClientIDs |-> 0]
    /\ succeeded = [c \in ClientIDs |-> {}]
    /\ charged = {}
    /\ closed = [c \in ClientIDs |-> {}]
    /\ pc = "loop"
    /\ pending \in 0..MaxRecords
    /\ index = 0
    /\ record = NoRecord
    /\ converted = NotConverted
    /\ handed = <<>>
    /\ reported = {}
    /\ output = NoOutput

\* `let payment_raw = payment?;` on a row the reader cannot deserialize:
\* run() returns the error.
RecordUnreadable ==
    /\ pc = "loop" /\ pending > 0
    /\ pc' = "failed"
    /\ pending' = pending - 1
    /\ index' = index + 1
    /\ record' = Unreadable
    /\ converted' = NotConverted
    /\ UNCHANGED <<handed, reported, output>>
    /\ UNCHANGED ledgerVars

\* `payment_raw.clone().try_into()?` on a record that is no Payment: run()
\* returns the error.
RecordInvalid ==
    /\ pc = "loop" /\ pending > 0
    /\ \E raw \in RawInputRecord :
           /\ payment_try_from(raw).err # OK
           /\ record' = raw
           /\ converted' = payment_try_from(raw)
    /\ pc' = "failed"
    /\ pending' = pending - 1
    /\ index' = index + 1
    /\ UNCHANGED <<handed, reported, output>>
    /\ UNCHANGED ledgerVars

\* A record that converts: it is handed to process(); an error of process()
\* is printed and the loop goes on.
RecordProcessed ==
    /\ pc = "loop" /\ pending > 0
    /\ \E raw \in RawInputRecord :
           /\ payment_try_from(raw).err = OK
           /\ record' = raw
           /\ converted' = payment_try_from(raw)
           /\ Call(payment_try_from(raw).payment)
           /\ reported' = IF process(accounts, payment_try_from(raw).payment).err # OK
                          THEN reported \cup {index} ELSE reported
    /\ handed' = Append(handed, index)
    /\ pending' = pending - 1
    /\ index' = index + 1
    /\ UNCHANGED <<pc, output, closed>>

\* After the last record: one row per account, then run() returns Ok.
WriteOutput ==
    /\ pc = "loop" /\ pending = 0
    /\ output' = [written |-> TRUE, rows |-> get_all_accounts(accounts)]
    /\ pc' = "done"
    /\ UNCHANGED <<pending, index, record, converted, handed, reported>>
    /\ UNCHANGED ledgerVars

NextRun == RecordUnreadable \/ RecordInvalid \/ RecordProcessed \/ WriteOutput

SpecRun == InitRun /\ [][NextRun]_vars

(* ------------------------------------------------------------ properties *)

\* C1: in every reachable state every account has held_funds <= total_funds,
\* so available_funds() is total_funds - held_funds, not negative and not
\* wrapped around.
C1_HeldWithinTotal ==
    \A c \in DOMAIN accounts :
        LET s == accounts[c].state
        IN  /\ 0 <= s.held_funds
            /\ s.held_funds <= s.total_funds
            /\ available_funds(s) = s.total_funds - s.held_funds
            /\ available_funds(s) >= 0

\* C1 witness: a dispute has just put funds on hold in every existing account.
C1_Witness ==
    /\ last.kind = "Dispute" /\ last.result = OK
    /\ DOMAIN accounts # {}
    /\ \A c \in DOMAIN accounts : accounts[c].state.held_funds > 0

\* C2: a call of process() that returns an error leaves every account that
\* existed before the call (state, history, in_dispute) exactly as it was.
C2_FailedEventKeepsAccount ==
    [][last'.result \in Error =>
          \A c \in DOMAIN accounts : accounts'[c] = accounts[c]]_vars

\* C2 witness: a dispute failed with Underflow (so its account had a deposit
\* in its history and funds withdrawn since).
C2_Witness ==
    /\ last.kind = "Dispute" /\ last.result = Underflow

\* C3 (as claimed): a call of process() that returns an error leaves the whole
\* map ClientID -> Account, and the clients the getters show, as they were.
C3_FailedEventKeepsLedger ==
    [][last'.result \in Error =>
          /\ accounts' = accounts
          /\ get_all_clients(accounts') = get_all_clients(accounts)
          /\ get_all_accounts(accounts') = get_all_accounts(accounts)
          /\ \A c \in ClientIDs :
                 get_account(accounts', c) = get_account(accounts, c)]_vars

\* C4: on a locked account every Deposit and every Withdrawal, whatever its tx
\* and amount, returns AccountLocked and changes nothing.
C4_LockGate ==
    \A p \in Payment :
        (/\ p.kind \in {"Deposit", "Withdrawal"}
         /\ p.client \in DOMAIN accounts
         /\ accounts[p.client].state.locked)
        => process(accounts, p) = [err |-> AccountLocked, accounts |-> accounts]

\* C4 witness: a deposit was just refused with AccountLocked.
C4_Witness ==
    /\ last.kind = "Deposit" /\ last.result = AccountLocked
    /\ \E c \in DOMAIN accounts : accounts[c].state.locked

\* C5: Dispute, Resolve and Chargeback on a locked account never return
\* AccountLocked and have the outcome (result, total, held, in_dispute) they
\* have on the account that differs only in locked = FALSE.
C5_ReconcileNotGated ==
    \A c \in DOMAIN accounts, tx \in TransactionIDs,
       kind \in {"Dispute", "Resolve", "Chargeback"} :
        accounts[c].state.locked =>
            LET p == [kind |-> kind, client |-> c, tx |-> tx, amount |-> 0]
                twin == [accounts[c] EXCEPT !.state.locked = FALSE]
                onLocked == dispatch(accounts[c], p)
                onTwin == dispatch(twin, p)
            IN  /\ onLocked.err # AccountLocked
                /\ onLocked.err = onTwin.err
                /\ onLocked.account.state.total_funds = onTwin.account.state.total_funds
                /\ onLocked.account.state.held_funds = onTwin.account.state.held_funds
                /\ onLocked.account.in_dispute = onTwin.account.in_dispute
                /\ onLocked.account.history = onTwin.account.history

\* C5 witness: a dispute has just succeeded and put funds on hold while every
\* existing account is locked.
C5_Witness ==
    /\ last.kind = "Dispute" /\ last.result = OK
    /\ DOMAIN accounts # {}
    /\ \A c \in DOMAIN accounts :
           accounts[c].state.locked /\ accounts[c].state.held_funds > 0

\* C6: for every client, total_funds is the sum of its successful deposits
\* minus its successful withdrawals minus one amount per completed chargeback
\* (failed events add nothing); a client without an account has moved nothing.
C6_Summation ==
    \A c \in ClientIDs :
        IF c \in DOMAIN accounts
        THEN accounts[c].state.total_funds = net[c]
        ELSE net[c] = 0

\* C6 witness: a chargeback has just completed and every existing account
\* still has funds left.
C6_Witness ==
    /\ last.kind = "Chargeback" /\ last.result = OK
    /\ DOMAIN accounts # {}
    /\ \A c \in DOMAIN accounts : accounts[c].state.total_funds > 0

\* C7: in_dispute is a subset of the keys of history and every disputed tx is
\* a Deposit entry.
C7_DisputedAreDeposits ==
    \A c \in DOMAIN accounts :
        /\ accounts[c].in_dispute \subseteq DOMAIN accounts[c].history
        /\ \A tx \in accounts[c].in_dispute :
               accounts[c].history[tx].variant = "Deposit"

\* C7 witness: an account has a disputed deposit next to a withdrawal, and a
\* dispute of a withdrawal was just refused.
C7_Witness ==
    /\ last.kind = "Dispute" /\ last.result = WrongTransactionType
    /\ \E c \in DOMAIN accounts :
           /\ accounts[c].in_dispute # {}
           /\ \E tx \in DOMAIN accounts[c].history :
                  accounts[c].history[tx].variant = "Withdrawal"

\* C8 (as claimed): once a Deposit or Withdrawal with tx id t has succeeded for
\* a client, every later Deposit or Withdrawal of that client with tx id t
\* returns TransactionAlreadyExists, in every state reachable afterwards.
C8_DuplicateAlwaysAlreadyExists ==
    \A p \in Payment :
        (p.kind \in {"Deposit", "Withdrawal"} /\ p.tx \in succeeded[p.client])
        => process(accounts, p).err = TransactionAlreadyExists

\* C8 (amended): such an event always fails and changes nothing: with
\* TransactionAlreadyExists while the account is unlocked, with AccountLocked
\* once a chargeback has locked the account.
C8_DuplicateFails ==
    \A p \in Payment :
        (p.kind \in {"Deposit", "Withdrawal"} /\ p.tx \in succeeded[p.client])
        => /\ p.client \in DOMAIN accounts
           /\ process(accounts, p) =
                 [err |-> IF accounts[p.client].state.locked
                          THEN AccountLocked ELSE TransactionAlreadyExists,
                  accounts |-> accounts]

\* C8 witness: a withdrawal reusing a tx id was just refused.
C8_Witness ==
    /\ last.kind = "Withdrawal" /\ last.result = TransactionAlreadyExists

\* C9: Dispute(tx) returns TransactionNotFound, WrongTransactionType,
\* TransactionAlreadyDisputed or Underflow (amount > total - held), in this
\* precedence and changing nothing, and otherwise succeeds with
\* held' = held + amount, tx added to in_dispute and the rest unchanged.
C9_DisputeOutcomes ==
    \A c \in ClientIDs, tx \in TransactionIDs :
        LET p == [kind |-> "Dispute", client |-> c, tx |-> tx, amount |-> 0]
            before == entry_or_default(accounts, c)
            a == before[c]
            r == process(accounts, p)
            unchanged == r.accounts = before
        IN  IF tx \notin DOMAIN a.history
            THEN r.err = TransactionNotFound /\ unchanged
            ELSE IF a.history[tx].variant = "Withdrawal"
            THEN r.err = WrongTransactionType /\ unchanged
            ELSE IF tx \in a.in_dispute
            THEN r.err = TransactionAlreadyDisputed /\ unchanged
            ELSE IF a.history[tx].amount > a.state.total_funds - a.state.held_funds
            THEN r.err = Underflow /\ unchanged
            ELSE /\ r.err = OK
                 /\ r.accounts =
                       [before EXCEPT
                          ![c].state.held_funds = @ + a.history[tx].amount,
                          ![c].in_dispute = @ \cup {tx}]

\* C9 witness: a dispute was just refused with Underflow.
C9_Witness ==
    /\ last.kind = "Dispute" /\ last.result = Underflow
    /\ \E c \in DOMAIN accounts :
           \E tx \in DOMAIN accounts[c].history :
               /\ accounts[c].history[tx].variant = "Deposit"
               /\ tx \notin accounts[c].in_dispute
               /\ accounts[c].history[tx].amount > available_funds(accounts[c].state)

\* C10: Resolve(tx) returns TransactionNotFound, WrongTransactionType or
\* TransactionNotDisputed, changing nothing, and otherwise succeeds with
\* held' = held - amount, tx removed from in_dispute and the rest unchanged.
C10_ResolveOutcomes ==
    \A c \in ClientIDs, tx \in TransactionIDs :
        LET p == [kind |-> "Resolve", client |-> c, tx |-> tx, amount |-> 0]
            before == entry_or_default(accounts, c)
            a == before[c]
            r == process(accounts, p)
            unchanged == r.accounts = before
        IN  IF tx \notin DOMAIN a.history
            THEN r.err = TransactionNotFound /\ unchanged
            ELSE IF a.history[tx].variant = "Withdrawal"
            THEN r.err = WrongTransactionType /\ unchanged
            ELSE IF tx \notin a.in_dispute
            THEN r.err = TransactionNotDisputed /\ unchanged
            ELSE /\ r.err = OK
                 /\ r.accounts =
                       [before EXCEPT
                          ![c].state.held_funds = @ - a.history[tx].amount,
                          ![c].in_dispute = @ \ {tx}]
                 /\ r.accounts[c].state.held_funds >= 0

\* C10 witness: a resolve has just succeeded and released all held funds of
\* accounts that hold a deposit of a positive amount.
C10_Witness ==
    /\ last.kind = "Resolve" /\ last.result = OK
    /\ DOMAIN accounts # {}
    /\ \A c \in DOMAIN accounts :
           /\ accounts[c].state.total_funds > 0
           /\ accounts[c].state.held_funds = 0
           /\ accounts[c].in_dispute = {}

\* C11: Chargeback(tx) returns TransactionNotFound, WrongTransactionType or
\* TransactionNotDisputed, changing nothing (locked included), and otherwise
\* succeeds with total' = total - amount, held' = held - amount,
\* locked' = TRUE, tx removed from in_dispute and the history unchanged.
C11_ChargebackOutcomes ==
    \A c \in ClientIDs, tx \in TransactionIDs :
        LET p == [kind |-> "Chargeback", client |-> c, tx |-> tx, amount |-> 0]
            before == entry_or_default(accounts, c)
            a == before[c]
            r == process(accounts, p)
            unchanged == r.accounts = before
        IN  IF tx \notin DOMAIN a.history
            THEN r.err = TransactionNotFound /\ unchanged
            ELSE IF a.history[tx].variant = "Withdrawal"
            THEN r.err = WrongTransactionType /\ unchanged
            ELSE IF tx \notin a.in_dispute
            THEN r.err = TransactionNotDisputed /\ unchanged
            ELSE /\ r.err = OK
                 /\ r.accounts =
                       [before EXCEPT
                          ![c].state.total_funds = @ - a.history[tx].amount,
                          ![c].state.held_funds = @ - a.history[tx].amount,
                          ![c].state.locked = TRUE,
                          ![c].in_dispute = @ \ {tx}]
                 /\ r.accounts[c].state.total_funds >= 0
                 /\ r.accounts[c].state.held_funds >= 0

\* C11 witness: a chargeback of a positive amount has just completed: every
\* existing account is locked with nothing disputed and less than it deposited.
C11_Witness ==
    /\ last.kind = "Chargeback" /\ last.result = OK
    /\ DOMAIN accounts # {}
    /\ \A c \in DOMAIN accounts :
           /\ accounts[c].state.locked
           /\ accounts[c].in_dispute = {}
           /\ \E tx \in DOMAIN accounts[c].history :
                  /\ accounts[c].history[tx].variant = "Deposit"
                  /\ accounts[c].history[tx].amount > accounts[c].state.total_funds

\* C12: whenever Dispute(tx) succeeds, a Resolve(tx) right after it succeeds
\* too and gives back the account as it was before the dispute (total, held,
\* locked, history and in_dispute), every other account being untouched.
C12_DisputeResolveRoundTrip ==
    \A c \in ClientIDs, tx \in TransactionIDs :
        LET d == process(accounts,
                         [kind |-> "Dispute", client |-> c, tx |-> tx, amount |-> 0])
            r == process(d.accounts,
                         [kind |-> "Resolve", client |-> c, tx |-> tx, amount |-> 0])
        IN  d.err = OK =>
                /\ c \in DOMAIN accounts
                /\ d.accounts # accounts
                /\ r.err = OK
                /\ r.accounts = accounts

\* C12 witness: a resolve has just succeeded in a ledger where some account
\* holds the largest total with nothing on hold, after funds were held.
C12_Witness ==
    /\ last.kind = "Resolve" /\ last.result = OK
    /\ \E c \in DOMAIN accounts :
           /\ accounts[c].state.total_funds = MaxAmount
           /\ accounts[c].state.held_funds = 0
           /\ accounts[c].in_dispute = {}
           /\ Cardinality(DOMAIN accounts[c].history) = 1

\* C13: on an unlocked account and for a tx id not in its history, a
\* Withdrawal succeeds exactly when amount <= total - held, taking the amount
\* out of total and leaving held alone; a larger amount returns Underflow and
\* changes nothing.
C13_WithdrawalBoundary ==
    \A p \in Payment :
        LET before == entry_or_default(accounts, p.client)
            a == before[p.client]
            r == process(accounts, p)
        IN  (/\ p.kind = "Withdrawal"
             /\ ~a.state.locked
             /\ p.tx \notin DOMAIN a.history)
            => IF p.amount <= a.state.total_funds - a.state.held_funds
               THEN /\ r.err = OK
                    /\ r.accounts[p.client].state =
                          [a.state EXCEPT !.total_funds = @ - p.amount]
                    /\ r.accounts[p.client].state.total_funds >=
                          r.accounts[p.client].state.held_funds
               ELSE r.err = Underflow /\ r.accounts = before

\* C13 witness: a withdrawal was just refused with Underflow while an
\* unlocked account has a total that would cover a withdrawal but part of it
\* is on hold.
C13_Witness ==
    /\ last.kind = "Withdrawal" /\ last.result = Underflow
    /\ \E c \in DOMAIN accounts :
           /\ ~accounts[c].state.locked
           /\ accounts[c].state.held_funds > 0
           /\ accounts[c].state.total_funds > accounts[c].state.held_funds
    /\ \A c \in DOMAIN accounts : accounts[c].state.held_funds > 0

\* C14: on an unlocked account and for a tx id not in its history, a Deposit
\* that would take total above the largest amount returns Overflow and changes
\* nothing, any other Deposit adds its amount; total stays within the range
\* of the integer in every reachable state.
C14_DepositOverflow ==
    /\ \A c \in DOMAIN accounts :
           /\ accounts[c].state.total_funds \in Amounts
           /\ accounts[c].state.held_funds \in Amounts
    /\ \A p \in Payment :
        LET before == entry_or_default(accounts, p.client)
            a == before[p.client]
            r == process(accounts, p)
        IN  (/\ p.kind = "Deposit"
             /\ ~a.state.locked
             /\ p.tx \notin DOMAIN a.history)
            => IF a.state.total_funds + p.amount > MaxAmount
               THEN r.err = Overflow /\ r.accounts = before
               ELSE /\ r.err = OK
                    /\ r.accounts[p.client].state =
                          [a.state EXCEPT !.total_funds = @ + p.amount]

\* C14 witness: a deposit was just refused with Overflow and an unlocked
\* account holds the largest amount.
C14_Witness ==
    /\ last.kind = "Deposit" /\ last.result = Overflow
    /\ \E c \in DOMAIN accounts :
           ~accounts[c].state.locked /\ accounts[c].state.total_funds = MaxAmount

\* C18: process(event) touches the account of event.client only: it creates
\* that account as the default one if absent (so a failed first event leaves
\* the default account, a successful first deposit leaves exactly its
\* effect), leaves every other account as it was, and judges a tx id against
\* the history of that client alone, so a tx id used by another client can
\* still be deposited.
C18_ClientIsolation ==
    \A p \in Payment :
        LET r == process(accounts, p)
            c == p.client
        IN  /\ DOMAIN r.accounts = DOMAIN accounts \cup {c}
            /\ \A o \in DOMAIN accounts \ {c} : r.accounts[o] = accounts[o]
            /\ (c \notin DOMAIN accounts /\ r.err # OK)
                   => r.accounts[c] = DefaultAccount
            /\ (c \notin DOMAIN accounts /\ p.kind = "Deposit")
                   => /\ r.err = OK
                      /\ r.accounts[c] =
                            [state |-> [locked |-> FALSE, total_funds |-> p.amount,
                                        held_funds |-> 0],
                             history |-> [t \in {p.tx} |-> PastDeposit(p.amount)],
                             in_dispute |-> {}]
            /\ (/\ p.kind = "Deposit"
                /\ c \in DOMAIN accounts
                /\ ~accounts[c].state.locked
                /\ p.tx \notin DOMAIN accounts[c].history
                /\ accounts[c].state.total_funds + p.amount <= MaxAmount)
                   => r.err = OK

\* C18 witness: a deposit has just succeeded and two clients have a Deposit
\* of a positive amount under the same tx id.
C18_Witness ==
    /\ last.kind = "Deposit" /\ last.result = OK
    /\ \E c1, c2 \in DOMAIN accounts :
           /\ c1 # c2
           /\ \E tx \in (DOMAIN accounts[c1].history) \cap (DOMAIN accounts[c2].history) :
                  /\ accounts[c1].history[tx].variant = "Deposit"
                  /\ accounts[c2].history[tx].variant = "Deposit"
                  /\ accounts[c1].history[tx].amount > 0
                  /\ accounts[c2].history[tx].amount > 0

\* C20: the checks of one event come in the order lock gate, history or
\* dispute set, arithmetic: a Deposit or Withdrawal on a locked account
\* returns AccountLocked also when its tx id is in the history; on an unlocked
\* account one whose tx id is in the history returns TransactionAlreadyExists
\* also when its amount would overflow or underflow; a Dispute of a disputed
\* tx returns TransactionAlreadyDisputed also when the amount exceeds the
\* available funds.
C20_ErrorPrecedence ==
    \A c \in DOMAIN accounts : \A tx \in DOMAIN accounts[c].history :
        LET a == accounts[c]
            dispute == [kind |-> "Dispute", client |-> c, tx |-> tx, amount |-> 0]
        IN  /\ \A kind \in {"Deposit", "Withdrawal"}, amount \in Amounts :
                   process(accounts, [kind |-> kind, client |-> c, tx |-> tx,
                                      amount |-> amount]).err
                     = IF a.state.locked THEN AccountLocked
                       ELSE TransactionAlreadyExists
            /\ tx \in a.in_dispute
                   => process(accounts, dispute).err = TransactionAlreadyDisputed

\* C20 witness: a dispute was just refused as already disputed although the
\* disputed deposit exceeds the available funds of every existing account,
\* and no deposit could be added without overflow.
C20_Witness ==
    /\ last.kind = "Dispute" /\ last.result = TransactionAlreadyDisputed
    /\ DOMAIN accounts # {}
    /\ \A c \in DOMAIN accounts :
           /\ accounts[c].state.total_funds = MaxAmount
           /\ \E tx \in accounts[c].in_dispute :
                  accounts[c].history[tx].amount > available_funds(accounts[c].state)

\* C19: a deposit whose dispute a Resolve or a Chargeback has closed stays in
\* the history, is out of in_dispute right after the closing event, and from
\* then on, whenever it is not disputed, Dispute(tx) succeeds if its amount is
\* <= the available funds and returns Underflow otherwise; after such a
\* dispute Chargeback(tx) succeeds and takes the amount out of total again.
C19_RedisputeAfterClose ==
    LET c == ObservedClient
        ev(kind, tx) == [kind |-> kind, client |-> c, tx |-> tx, amount |-> 0]
    IN  /\ c \in DOMAIN accounts =>
              \A tx \in accounts[c].in_dispute, kind \in {"Resolve", "Chargeback"} :
                  LET after == process(accounts, ev(kind, tx))
                  IN  /\ after.err = OK
                      /\ tx \in DOMAIN after.accounts[c].history
                      /\ tx \notin after.accounts[c].in_dispute
        /\ \A tx \in closed[c] :
              LET a == accounts[c]
                  d == process(accounts, ev("Dispute", tx))
                  cb == process(d.accounts, ev("Chargeback", tx))
              IN  /\ tx \in DOMAIN a.history
                  /\ a.history[tx].variant = "Deposit"
                  /\ tx \notin a.in_dispute =>
                        IF a.history[tx].amount <= a.state.total_funds - a.state.held_funds
                        THEN /\ d.err = OK
                             /\ tx \in d.accounts[c].in_dispute
                             /\ cb.err = OK
                             /\ cb.accounts[c].state.total_funds =
                                   a.state.total_funds - a.history[tx].amount
                        ELSE d.err = Underflow

\* C19 witness: a chargeback has just completed, two deposits of a positive
\* amount and no withdrawal are in the history, only one of them ever had its
\* dispute closed, and yet the total is zero: that deposit was disputed and
\* charged back twice.
C19_Witness ==
    LET c == ObservedClient
    IN  /\ last.kind = "Chargeback" /\ last.result = OK
        /\ c \in DOMAIN accounts
        /\ Cardinality(DOMAIN accounts[c].history) = 2
        /\ \A tx \in DOMAIN accounts[c].history :
               /\ accounts[c].history[tx].variant = "Deposit"
               /\ accounts[c].history[tx].amount > 0
        /\ Cardinality(closed[c]) = 1
        /\ accounts[c].state.total_funds = 0

\* C15 (as claimed): a record that fails to convert into a Payment (or that
\* the CSV reader cannot deserialize) does not end the run: the run ends only
\* with every record of the input read and the account states written.
C15_InvalidRecordDoesNotHalt ==
    /\ (record = Unreadable \/ converted.err \in DeserializationError)
           => pc # "failed"
    /\ pc # "loop" => (pending = 0 /\ output.written)

\* C16 (as claimed): after a record whose process() call returned an error
\* the run still hands every record to the processor exactly once and in
\* input order, and ends with the account states written after the last
\* record.
C16_ProcessErrorNotFatal ==
    (pc # "loop" /\ reported # {})
        => /\ pending = 0
           /\ handed = [k \in 1..index |-> k - 1]
           /\ output.written
           /\ output.rows = get_all_accounts(accounts)

\* C17 (as claimed): a deposit or withdrawal record with a negative amount
\* fails to convert, so no event is built from it and nothing of it reaches
\* the ledger.
C17_NegativeAmountRejected ==
    (/\ record.type \in {"deposit", "withdrawal"}
     /\ record.amount.some
     /\ record.amount.v < 0)
        => /\ converted.err # OK
           /\ pc = "failed"

\* C21: the history only grows and records successes only: its keys are the
\* tx ids of the deposits and withdrawals that succeeded; an event keeps every
\* existing entry as it is; a Deposit or Withdrawal that succeeds adds exactly
\* the entry of its tx, variant and amount, every other event adds nothing;
\* and the tx id of a Deposit or Withdrawal that failed on its arithmetic is
\* still free, so that a later Deposit with it succeeds.
C21_HistoryAppendOnly ==
    /\ \A c \in ClientIDs :
           succeeded[c] = IF c \in DOMAIN accounts
                          THEN DOMAIN accounts[c].history ELSE {}
    /\ \A p \in Payment :
        LET c == p.client
            h == entry_or_default(accounts, c)[c].history
            r == process(accounts, p)
            h2 == r.accounts[c].history
            retry == [kind |-> "Deposit", client |-> c, tx |-> p.tx, amount |-> 0]
        IN  /\ \A tx \in DOMAIN h : tx \in DOMAIN h2 /\ h2[tx] = h[tx]
            /\ IF p.kind \in {"Deposit", "Withdrawal"} /\ r.err = OK
               THEN /\ p.tx \notin DOMAIN h
                    /\ DOMAIN h2 = DOMAIN h \cup {p.tx}
                    /\ h2[p.tx] = [variant |-> p.kind, amount |-> p.amount]
               ELSE h2 = h
            /\ (p.kind \in {"Deposit", "Withdrawal"} /\ r.err \in {Overflow, Underflow})
                   => /\ p.tx \notin DOMAIN h2
                      /\ process(r.accounts, retry).err = OK

\* C21 witness: a withdrawal has just succeeded and an account has a Deposit
\* and a Withdrawal entry, both of a positive amount, with nothing disputed.
C21_Witness ==
    /\ last.kind = "Withdrawal" /\ last.result = OK
    /\ \E c \in DOMAIN accounts :
           /\ accounts[c].in_dispute = {}
           /\ \E t1, t2 \in DOMAIN accounts[c].history :
                  /\ accounts[c].history[t1].variant = "Deposit"
                  /\ accounts[c].history[t2].variant = "Withdrawal"
                  /\ accounts[c].history[t1].amount > 0
                  /\ accounts[c].history[t2].amount > 0

\* The amounts that the history of an account records for a set of tx ids.
RECURSIVE disputed_amount(_, _)
disputed_amount(self, txs) ==
    IF txs = {} THEN 0
    ELSE LET tx == CHOOSE t \in txs : TRUE
         IN  self.history[tx].amount + disputed_amount(self, txs \ {tx})

\* C22: in every reachable state of every account, held_funds is the sum of
\* the amounts of the history deposits whose tx is in in_dispute; and a
\* Resolve or a Chargeback of a tx in in_dispute succeeds (no Underflow, no
\* other error).
C22_HeldIsDisputedSum ==
    \A c \in DOMAIN accounts :
        /\ accounts[c].in_dispute \subseteq DOMAIN accounts[c].history
        /\ \A tx \in accounts[c].in_dispute :
               accounts[c].history[tx].variant = "Deposit"
        /\ accounts[c].state.held_funds
               = disputed_amount(accounts[c], accounts[c].in_dispute)
        /\ \A tx \in accounts[c].in_dispute :
               \A kind \in {"Resolve", "Chargeback"} :
                   process(accounts, [kind |-> kind, client |-> c, tx |-> tx,
                                      amount |-> 0]).err = OK

\* C22 witness: a chargeback has just succeeded on an account that still has
\* a deposit of a positive amount in dispute.
C22_Witness ==
    /\ last.kind = "Chargeback" /\ last.result = OK
    /\ \E c \in DOMAIN accounts :
           /\ accounts[c].state.locked
           /\ \E tx \in accounts[c].in_dispute :
                  accounts[c].history[tx].amount > 0

\* C23: an account is locked in a state if and only if a Chargeback for that
\* client has succeeded before it; no event sets locked back to false; and
\* on a locked account no event increases total_funds.
C23_LockedMonotone ==
    /\ [](\A c \in ClientIDs :
              (c \in DOMAIN accounts /\ accounts[c].state.locked) <=> c \in charged)
    /\ [][\A c \in DOMAIN accounts :
              accounts[c].state.locked
                  => /\ c \in DOMAIN accounts'
                     /\ accounts'[c].state.locked
                     /\ accounts'[c].state.total_funds
                            <= accounts[c].state.total_funds]_vars

\* C23 witness: a resolve has just succeeded; one client has had a chargeback
\* and is locked with funds left, another client, with funds, has had none.
C23_Witness ==
    /\ last.kind = "Resolve" /\ last.result = OK
    /\ \E c \in charged : accounts[c].state.locked /\ accounts[c].state.total_funds > 0
    /\ \E c \in DOMAIN accounts \ charged :
           ~accounts[c].state.locked /\ accounts[c].state.total_funds > 0

====
